---- MODULE Spec2Model ----
(***************************************************************************)
(* A model of two rules of eslint-plugin-functional:                       *)
(*   src/rules/functional-parameters.ts  (checkFunction, checkIdentifier)  *)
(*   src/rules/no-promise-reject.ts      (checkCallExpression)             *)
(* together with the activation of functional-parameters: validation of    *)
(* the raw user options against the rule's schema and the merge of the     *)
(* user options over the declared defaults.                                *)
(*                                                                         *)
(* JSON values are tagged records: typeof v is v.tag.  An object carries   *)
(* its properties as a function from the keys present to JSON values; a    *)
(* key that is absent reads as Undefined.                                  *)
(***************************************************************************)
EXTENDS Integers, Sequences, FiniteSets, TLC

VARIABLES phase, userOptions, options, node, handler, result, again

vars == <<phase, userOptions, options, node, handler, result, again>>

\* The longest parameter list of a visited function.
MaxParams == 2

----------------------------------------------------------------------------
(* JSON values *)

JBool(b) == [tag |-> "boolean", b |-> b]
JStr(s) == [tag |-> "string", s |-> s]
JNum(n) == [tag |-> "number", n |-> n]
JArr(items) == [tag |-> "array", items |-> items]
JObj(props) == [tag |-> "object", props |-> props]
Undefined == [tag |-> "undefined"]
Null == [tag |-> "null"]

\* o.k for a property map o: undefined when the key is absent.
Get(o, k) == IF k \in DOMAIN o THEN o[k] ELSE Undefined

\* JavaScript's truthiness, as `!x` and `x && ...` read a value.
Truthy(v) ==
  CASE v.tag = "boolean" -> v.b
    [] v.tag = "string" -> v.s # ""
    [] v.tag = "number" -> v.n # 0
    [] v.tag = "undefined" -> FALSE
    [] v.tag = "null" -> FALSE
    [] OTHER -> TRUE

\* v === "s"
IsStr(v, s) == v.tag = "string" /\ v.s = s

\* v === false
IsFalse(v) == v.tag = "boolean" /\ ~v.b

\* The property map f without the keys it gives as Undefined: a key left
\* out of an object literal.
Present(f) == [k \in {x \in DOMAIN f : f[x].tag # "undefined"} |-> f[k]]

----------------------------------------------------------------------------
(* The option schema and its validation *)

\* ~/common/ignore-options: the ignorePattern option, a string or a list of
\* strings.
ignorePatternOptionSchema ==
  [ignorePattern |-> [type |-> {"string", "array"},
                      items |-> [type |-> {"string"}]]]

\* deepmerge of two property maps that share no key.
deepmerge(a, b) == a @@ b

ParameterCountOptions == {JStr("atLeastOne"), JStr("exactlyOne")}

\* Mutant: the boolean alternative without its enum, so that true passes.
schema_anyBoolean ==
  << [type |-> {"object"},
      properties |-> deepmerge(ignorePatternOptionSchema,
        [allowRestParameter |-> [type |-> {"boolean"}],
         allowArgumentsKeyword |-> [type |-> {"boolean"}],
         enforceParameterCount |->
           [oneOf |-> << [type |-> {"boolean"}],
                         [type |-> {"string"}, enum |-> ParameterCountOptions],
                         [type |-> {"object"},
                          properties |->
                            [count |-> [type |-> {"string"},
                                        enum |-> ParameterCountOptions],
                             ignoreIIFE |-> [type |-> {"boolean"}]],
                          additionalProperties |-> FALSE] >>]]),
      additionalProperties |-> FALSE] >>

schema ==
  << [type |-> {"object"},
      properties |-> deepmerge(ignorePatternOptionSchema,
        [allowRestParameter |-> [type |-> {"boolean"}],
         allowArgumentsKeyword |-> [type |-> {"boolean"}],
         enforceParameterCount |->
           [oneOf |-> << [type |-> {"boolean"}, enum |-> {JBool(FALSE)}],
                         [type |-> {"string"}, enum |-> ParameterCountOptions],
                         [type |-> {"object"},
                          properties |->
                            [count |-> [type |-> {"string"},
                                        enum |-> ParameterCountOptions],
                             ignoreIIFE |-> [type |-> {"boolean"}]],
                          additionalProperties |-> FALSE] >>]]),
      additionalProperties |-> FALSE] >>

\* JSON-schema validation of value v against schema s, for the keywords the
\* schema uses: type, enum, oneOf, properties, additionalProperties, items.
RECURSIVE Valid(_, _)
Valid(s, v) ==
  /\ "type" \in DOMAIN s => v.tag \in s.type
  /\ "enum" \in DOMAIN s => \E e \in s.enum : e.tag = v.tag /\ e = v
  /\ "oneOf" \in DOMAIN s =>
       Cardinality({i \in 1..Len(s.oneOf) : Valid(s.oneOf[i], v)}) = 1
  /\ ("properties" \in DOMAIN s /\ v.tag = "object") =>
       \A k \in DOMAIN v.props \cap DOMAIN s.properties :
         Valid(s.properties[k], v.props[k])
  /\ ("additionalProperties" \in DOMAIN s /\ v.tag = "object"
        /\ ~s.additionalProperties) =>
       DOMAIN v.props \subseteq DOMAIN s.properties
  /\ ("items" \in DOMAIN s /\ v.tag = "array") =>
       \A i \in 1..Len(v.items) : Valid(s.items, v.items[i])

\* The indices of the oneOf alternatives of enforceParameterCount that v
\* satisfies.
MatchingAlternatives(v) ==
  LET alts == schema[1].properties.enforceParameterCount.oneOf
  IN {i \in 1..Len(alts) : Valid(alts[i], v)}

----------------------------------------------------------------------------
(* Defaults and their merge with the user's options *)

\* Mutant: the default record does not exempt immediately-invoked functions.
defaultOptions_noIgnoreIIFE ==
  << [allowRestParameter |-> JBool(FALSE),
      allowArgumentsKeyword |-> JBool(FALSE),
      enforceParameterCount |->
        JObj([count |-> JStr("atLeastOne"), ignoreIIFE |-> JBool(FALSE)])] >>

defaultOptions ==
  << [allowRestParameter |-> JBool(FALSE),
      allowArgumentsKeyword |-> JBool(FALSE),
      enforceParameterCount |->
        JObj([count |-> JStr("atLeastOne"), ignoreIIFE |-> JBool(TRUE)])] >>

\* Option resolution: the user's keys replace the default's, each wholesale.
resolveOptions(declaredDefault, userSupplied) ==
  << [k \in DOMAIN declaredDefault[1] \cup DOMAIN userSupplied[1] |->
        IF k \in DOMAIN userSupplied[1]
        THEN userSupplied[1][k]
        ELSE declaredDefault[1][k]] >>

----------------------------------------------------------------------------
(* Syntax-tree nodes *)

FunctionTypes ==
  {"FunctionDeclaration", "FunctionExpression", "ArrowFunctionExpression"}

\* A parameter; range stands for the node's identity (its place in the list).
Param(t, i) == [type |-> t, range |-> i]

\* Parameter lists of length n: a rest element may only come last.
ParamLists(n) ==
  IF n = 0 THEN {<<>>}
  ELSE {[i \in 1..n |-> Param(IF i = n THEN last ELSE "Identifier", i)] :
          last \in {"Identifier", "RestElement"}}

FunctionParents ==
  {"CallExpression.callee", "CallExpression.arguments", "Program.body"}

FunctionNodes ==
  UNION {
    {[type |-> t, name |-> nm, params |-> ps, parent |-> pa] :
        ps \in ParamLists(n),
        pa \in IF t = "FunctionDeclaration" THEN {"Program.body"}
               ELSE FunctionParents,
        nm \in IF t = "ArrowFunctionExpression" THEN {""}
               ELSE IF t = "FunctionDeclaration" THEN {"f"} ELSE {"", "f"}}
    : t \in FunctionTypes, n \in 0..MaxParams}

IdentifierParents ==
  {"MemberExpression.property", "MemberExpression.object",
   "Property.key", "Property.value", "ExpressionStatement.expression"}

IdentifierNodes ==
  {[type |-> "Identifier", name |-> nm, parent |-> pa] :
     nm \in {"arguments", "f"}, pa \in IdentifierParents}

Ident(nm) == [type |-> "Identifier", name |-> nm]

Callees ==
  {Ident("f"), Ident("reject")}
  \cup {[type |-> "MemberExpression", object |-> o, property |-> p] :
          o \in {Ident("Promise"), Ident("f"), [type |-> "ThisExpression"]},
          p \in {Ident("reject"), Ident("resolve"),
                 [type |-> "Literal", value |-> "reject"]}}

CallNodes == {[type |-> "CallExpression", callee |-> c] : c \in Callees}

\* ~/util/typeguard
isRestElement(n) == n.type = "RestElement"
isIdentifier(n) == n.type = "Identifier"
isMemberExpression(n) == n.type = "MemberExpression"

\* ~/util/tree: each reads the node's parent and the slot the node fills.
isIIFE(n) ==
  /\ n.type \in {"FunctionExpression", "ArrowFunctionExpression"}
  /\ n.parent = "CallExpression.callee"
isPropertyAccess(n) == n.parent = "MemberExpression.property"
isPropertyName(n) == n.parent = "Property.key"

\* ~/common/ignore-options: the node is ignored when it has a name and one
\* of the configured patterns matches the name.
shouldIgnorePattern(n, context, optionsObject) ==
  LET ignorePattern == Get(optionsObject, "ignorePattern")
      text == IF "name" \in DOMAIN n THEN n.name ELSE ""
  IN /\ text # ""
     /\ CASE ignorePattern.tag = "string" -> ignorePattern.s = text
          [] ignorePattern.tag = "array" ->
               \E i \in 1..Len(ignorePattern.items) :
                 ignorePattern.items[i].s = text
          [] OTHER -> FALSE

----------------------------------------------------------------------------
(* functional-parameters *)

getRestParamViolations(opts, n) ==
  IF /\ ~Truthy(Get(opts[1], "allowRestParameter"))
     /\ Len(n.params) > 0
     /\ isRestElement(n.params[Len(n.params)])
  THEN << [node |-> n.params[Len(n.params)], messageId |-> "restParam"] >>
  ELSE <<>>

\* Mutant: "atLeastOne" reported for every count other than one.
getParamCountViolations_atLeastOneNotOne(opts, n) ==
  LET enforceParameterCount == Get(opts[1], "enforceParameterCount")
      isObject == enforceParameterCount.tag = "object"
      count == IF isObject THEN Get(enforceParameterCount.props, "count")
               ELSE enforceParameterCount
  IN IF \/ IsFalse(enforceParameterCount)
        \/ /\ Len(n.params) = 0
           /\ isObject
           /\ Truthy(Get(enforceParameterCount.props, "ignoreIIFE"))
           /\ isIIFE(n)
     THEN <<>>
     ELSE IF Len(n.params) # 1 /\ IsStr(count, "atLeastOne")
     THEN << [node |-> n, messageId |-> "paramCountAtLeastOne"] >>
     ELSE IF Len(n.params) # 1 /\ IsStr(count, "exactlyOne")
     THEN << [node |-> n, messageId |-> "paramCountExactlyOne"] >>
     ELSE <<>>

\* Mutant: the IIFE exemption is left out.
getParamCountViolations_noExemption(opts, n) ==
  LET enforceParameterCount == Get(opts[1], "enforceParameterCount")
      isObject == enforceParameterCount.tag = "object"
      count == IF isObject THEN Get(enforceParameterCount.props, "count")
               ELSE enforceParameterCount
  IN IF IsFalse(enforceParameterCount)
     THEN <<>>
     ELSE IF Len(n.params) = 0 /\ IsStr(count, "atLeastOne")
     THEN << [node |-> n, messageId |-> "paramCountAtLeastOne"] >>
     ELSE IF Len(n.params) # 1 /\ IsStr(count, "exactlyOne")
     THEN << [node |-> n, messageId |-> "paramCountExactlyOne"] >>
     ELSE <<>>

\* Mutant: the IIFE exemption covers every immediately-invoked function,
\* with or without parameters.
getParamCountViolations_exemptAnyIIFE(opts, n) ==
  LET enforceParameterCount == Get(opts[1], "enforceParameterCount")
      isObject == enforceParameterCount.tag = "object"
      count == IF isObject THEN Get(enforceParameterCount.props, "count")
               ELSE enforceParameterCount
  IN IF \/ IsFalse(enforceParameterCount)
        \/ /\ isObject
           /\ Truthy(Get(enforceParameterCount.props, "ignoreIIFE"))
           /\ isIIFE(n)
     THEN <<>>
     ELSE IF Len(n.params) = 0 /\ IsStr(count, "atLeastOne")
     THEN << [node |-> n, messageId |-> "paramCountAtLeastOne"] >>
     ELSE IF Len(n.params) # 1 /\ IsStr(count, "exactlyOne")
     THEN << [node |-> n, messageId |-> "paramCountExactlyOne"] >>
     ELSE <<>>

getParamCountViolations(opts, n) ==
  LET enforceParameterCount == Get(opts[1], "enforceParameterCount")
      isObject == enforceParameterCount.tag = "object"
  IN IF \/ IsFalse(enforceParameterCount)
        \/ /\ Len(n.params) = 0
           /\ isObject
           /\ Truthy(Get(enforceParameterCount.props, "ignoreIIFE"))
           /\ isIIFE(n)
     THEN <<>>
     ELSE IF /\ Len(n.params) = 0
             /\ \/ IsStr(enforceParameterCount, "atLeastOne")
                \/ /\ isObject
                   /\ IsStr(Get(enforceParameterCount.props, "count"),
                            "atLeastOne")
     THEN << [node |-> n, messageId |-> "paramCountAtLeastOne"] >>
     ELSE IF /\ Len(n.params) # 1
             /\ \/ IsStr(enforceParameterCount, "exactlyOne")
                \/ /\ isObject
                   /\ IsStr(Get(enforceParameterCount.props, "count"),
                            "exactlyOne")
     THEN << [node |-> n, messageId |-> "paramCountExactlyOne"] >>
     ELSE <<>>

\* Mutant: the detectors run in the opposite order.
checkFunction_countFirst(n, context, opts) ==
  IF shouldIgnorePattern(n, context, opts[1])
  THEN [context |-> context, descriptors |-> <<>>]
  ELSE [context |-> context,
        descriptors |-> getParamCountViolations(opts, n)
                          \o getRestParamViolations(opts, n)]

\* Mutant: the parameter count is only looked at when the rest-parameter
\* detector reports nothing.
checkFunction_firstOnly(n, context, opts) ==
  IF shouldIgnorePattern(n, context, opts[1])
  THEN [context |-> context, descriptors |-> <<>>]
  ELSE [context |-> context,
        descriptors |->
          IF getRestParamViolations(opts, n) # <<>>
          THEN getRestParamViolations(opts, n)
          ELSE getParamCountViolations(opts, n)]

checkFunction(n, context, opts) ==
  IF shouldIgnorePattern(n, context, opts[1])
  THEN [context |-> context, descriptors |-> <<>>]
  ELSE [context |-> context,
        descriptors |-> getRestParamViolations(opts, n)
                          \o getParamCountViolations(opts, n)]

\* Mutant: the ignore pattern is not consulted.
checkIdentifier_noIgnore(n, context, opts) ==
  [context |-> context,
   descriptors |->
     IF /\ ~Truthy(Get(opts[1], "allowArgumentsKeyword"))
        /\ n.name = "arguments"
        /\ ~isPropertyName(n)
        /\ ~isPropertyAccess(n)
     THEN << [node |-> n, messageId |-> "arguments"] >>
     ELSE <<>>]

\* Mutant: an `arguments` that is the property of a member access is
\* reported too.
checkIdentifier_noPropertyAccess(n, context, opts) ==
  IF shouldIgnorePattern(n, context, opts[1])
  THEN [context |-> context, descriptors |-> <<>>]
  ELSE [context |-> context,
        descriptors |->
          IF /\ ~Truthy(Get(opts[1], "allowArgumentsKeyword"))
             /\ n.name = "arguments"
             /\ ~isPropertyName(n)
          THEN << [node |-> n, messageId |-> "arguments"] >>
          ELSE <<>>]

checkIdentifier(n, context, opts) ==
  IF shouldIgnorePattern(n, context, opts[1])
  THEN [context |-> context, descriptors |-> <<>>]
  ELSE [context |-> context,
        descriptors |->
          IF /\ ~Truthy(Get(opts[1], "allowArgumentsKeyword"))
             /\ n.name = "arguments"
             /\ ~isPropertyName(n)
             /\ ~isPropertyAccess(n)
          THEN << [node |-> n, messageId |-> "arguments"] >>
          ELSE <<>>]

----------------------------------------------------------------------------
(* no-promise-reject *)

\* Mutant: the name of the object is not compared.
checkCallExpression_anyObject(n, context) ==
  [context |-> context,
   descriptors |->
     IF /\ isMemberExpression(n.callee)
        /\ isIdentifier(n.callee.object)
        /\ isIdentifier(n.callee.property)
        /\ n.callee.property.name = "reject"
     THEN << [node |-> n, messageId |-> "generic"] >>
     ELSE <<>>]

checkCallExpression(n, context) ==
  [context |-> context,
   descriptors |->
     IF /\ isMemberExpression(n.callee)
        /\ isIdentifier(n.callee.object)
        /\ isIdentifier(n.callee.property)
        /\ n.callee.object.name = "Promise"
        /\ n.callee.property.name = "reject"
     THEN << [node |-> n, messageId |-> "generic"] >>
     ELSE <<>>]

----------------------------------------------------------------------------
(* Raw user configurations *)

EnforceParameterCountValues ==
  {JBool(FALSE), JBool(TRUE), JStr("atLeastOne"), JStr("exactlyOne"),
   JStr("atMostOne"), JNum(1), Null, JArr(<<JStr("atLeastOne")>>)}
  \cup {JObj(Present([count |-> c, ignoreIIFE |-> g, extra |-> x])) :
          c \in {Undefined, JStr("atLeastOne"), JStr("exactlyOne"),
                 JStr("atMostOne")},
          g \in {Undefined, JBool(TRUE), JBool(FALSE), JNum(1)},
          x \in {Undefined, JBool(TRUE)}}

BooleanOptionValues == {JBool(TRUE), JBool(FALSE), JNum(1)}

IgnorePatternValues ==
  {JArr(<<>>), JArr(<<JStr("arguments")>>), JArr(<<JStr("f")>>),
   JStr("arguments"), JArr(<<JNum(1)>>)}

OptionValues(k) ==
  CASE k = "allowRestParameter" -> BooleanOptionValues
    [] k = "allowArgumentsKeyword" -> BooleanOptionValues
    [] k = "enforceParameterCount" -> EnforceParameterCountValues
    [] k = "ignorePattern" -> IgnorePatternValues
    [] k = "unknownOption" -> {JBool(TRUE)}

\* Every property map over a subset of the keys: a key is left out where
\* its value is drawn as Undefined.
UserOptions ==
  {Present([allowRestParameter |-> r, allowArgumentsKeyword |-> a,
            enforceParameterCount |-> e, ignorePattern |-> i,
            unknownOption |-> x]) :
     r \in OptionValues("allowRestParameter") \cup {Undefined},
     a \in OptionValues("allowArgumentsKeyword") \cup {Undefined},
     e \in OptionValues("enforceParameterCount") \cup {Undefined},
     i \in OptionValues("ignorePattern") \cup {Undefined},
     x \in OptionValues("unknownOption") \cup {Undefined}}

----------------------------------------------------------------------------
(* The linter run *)

Context == [filename |-> "file.ts"]

NoNode == [type |-> "none"]
NoResult == [context |-> Context, descriptors |-> <<>>]

Init ==
  /\ phase = "init"
  /\ userOptions = <<>>
  /\ options = <<>>
  /\ node = NoNode
  /\ handler = "none"
  /\ result = NoResult
  /\ again = <<>>

\* Rule activation with options the schema accepts.
Activate ==
  /\ phase = "init"
  /\ \E u \in UserOptions :
       /\ Valid(schema[1], JObj(u))
       /\ userOptions' = <<u>>
       /\ options' = resolveOptions(defaultOptions, <<u>>)
  /\ phase' = "active"
  /\ UNCHANGED <<node, handler, result, again>>

\* Rule activation with options the schema rejects: a configuration error.
Reject ==
  /\ phase = "init"
  /\ \E u \in UserOptions :
       /\ ~Valid(schema[1], JObj(u))
       /\ userOptions' = <<u>>
  /\ phase' = "configError"
  /\ UNCHANGED <<options, node, handler, result, again>>

VisitFunction(n) ==
  /\ phase = "active"
  /\ node' = n
  /\ handler' = "checkFunction"
  /\ phase' = "visited"
  /\ result' = checkFunction(n, Context, options)
  /\ again' = <<>>
  /\ UNCHANGED <<userOptions, options>>

VisitIdentifier(n) ==
  /\ phase = "active"
  /\ node' = n
  /\ handler' = "checkIdentifier"
  /\ phase' = "visited"
  /\ result' = checkIdentifier(n, Context, options)
  /\ again' = <<>>
  /\ UNCHANGED <<userOptions, options>>

VisitCallExpression(n) ==
  /\ phase = "active"
  /\ node' = n
  /\ handler' = "checkCallExpression"
  /\ phase' = "visited"
  /\ result' = checkCallExpression(n, Context)
  /\ again' = <<>>
  /\ UNCHANGED <<userOptions, options>>

\* The host invokes the same handler once more on the same node with the
\* same context and options.
Revisit ==
  /\ phase = "visited"
  /\ again = <<>>
  /\ again' = << CASE handler = "checkFunction" ->
                        checkFunction(node, Context, options)
                   [] handler = "checkIdentifier" ->
                        checkIdentifier(node, Context, options)
                   [] handler = "checkCallExpression" ->
                        checkCallExpression(node, Context) >>
  /\ UNCHANGED <<phase, userOptions, options, node, handler, result>>

\* ~/util/rule: the wrapper hands the descriptors of the result to the
\* host's report call, and the traversal moves on.
Report ==
  /\ phase = "visited"
  /\ phase' = "active"
  /\ node' = NoNode
  /\ handler' = "none"
  /\ result' = NoResult
  /\ again' = <<>>
  /\ UNCHANGED <<userOptions, options>>

Next ==
  \/ Activate
  \/ Reject
  \/ \E n \in FunctionNodes : VisitFunction(n)
  \/ \E n \in IdentifierNodes : VisitIdentifier(n)
  \/ \E n \in CallNodes : VisitCallExpression(n)
  \/ Revisit
  \/ Report

Spec == Init /\ [][Next]_vars

----------------------------------------------------------------------------
(* Properties of the handlers *)

Visited(h) == phase = "visited" /\ handler = h

Descriptors == result.descriptors

Ignored == shouldIgnorePattern(node, Context, options[1])

Option(k) == Get(options[1], k)

NParams == Len(node.params)

EndsWithRest == NParams > 0 /\ node.params[NParams].type = "RestElement"

ParamCountKeys == {"paramCountAtLeastOne", "paramCountExactlyOne"}

\* The positions of the descriptors with a key of K.
Positions(ds, K) == {i \in 1..Len(ds) : ds[i].messageId \in K}

\* enforceParameterCount in record form.
RecordForm == Option("enforceParameterCount").tag = "object"

\* The count enforceParameterCount asks for, in string or record form:
\* "none" when it is false or a record without a count.
RequiredCount ==
  LET e == Option("enforceParameterCount")
      c == IF RecordForm THEN Get(e.props, "count") ELSE e
  IN IF c.tag = "string" THEN c.s ELSE "none"

\* ignoreIIFE = true, which only the record form can say.
IgnoreIIFE ==
  /\ RecordForm
  /\ Get(Option("enforceParameterCount").props, "ignoreIIFE") = JBool(TRUE)

\* The visited function is the callee of an immediately-invoked call.
ImmediatelyInvoked ==
  /\ node.type \in {"FunctionExpression", "ArrowFunctionExpression"}
  /\ node.parent = "CallExpression.callee"

\* The parameter count the options ask for is not the function's.
ParamCountViolated ==
  \/ RequiredCount = "atLeastOne" /\ NParams = 0
  \/ RequiredCount = "exactlyOne" /\ NParams # 1

\* C1. Ignore short-circuit: when shouldIgnorePattern holds of the visited
\* node, checkFunction and checkIdentifier return no descriptor, whatever
\* the detectors would report for the node.
C1_IgnoreShortCircuit ==
  (/\ phase = "visited"
   /\ handler \in {"checkFunction", "checkIdentifier"}
   /\ Ignored)
  => Descriptors = <<>>

\* Scenario E: identifier `arguments` as a plain value, matched by an ignore
\* pattern, with the keyword not allowed: nothing is reported.
C1_Witness ==
  /\ Visited("checkIdentifier")
  /\ node.name = "arguments"
  /\ node.parent = "ExpressionStatement.expression"
  /\ Option("allowArgumentsKeyword") = JBool(FALSE)
  /\ Option("ignorePattern") = JArr(<<JStr("arguments")>>)
  /\ Descriptors = <<>>

\* C2. Rest parameter: for a function that is not ignored and whose last
\* parameter is a rest element, with allowRestParameter = false,
\* checkFunction returns exactly one restParam descriptor, on that last
\* parameter, whatever enforceParameterCount is; the result holds two
\* descriptors exactly when the parameter count is violated as well, and one
\* otherwise.
C2_RestParameter ==
  (/\ Visited("checkFunction")
   /\ ~Ignored
   /\ EndsWithRest
   /\ Option("allowRestParameter") = JBool(FALSE))
  => /\ Cardinality(Positions(Descriptors, {"restParam"})) = 1
     /\ \A i \in Positions(Descriptors, {"restParam"}) :
          Descriptors[i].node = node.params[NParams]
     /\ Len(Descriptors) = IF ParamCountViolated THEN 2 ELSE 1

\* A rest parameter and a wrong parameter count on the same function.
C2_Witness ==
  /\ Visited("checkFunction")
  /\ ~Ignored
  /\ EndsWithRest
  /\ Option("allowRestParameter") = JBool(FALSE)
  /\ ParamCountViolated
  /\ Len(Descriptors) = 2

\* C3. Parameter count: with enforceParameterCount = "atLeastOne", a
\* function that is not ignored, has no parameter and is not immediately
\* invoked gets exactly one descriptor, paramCountAtLeastOne on the function;
\* a function with a parameter gets no parameter-count descriptor.
C3_AtLeastOne ==
  (/\ Visited("checkFunction")
   /\ ~Ignored
   /\ IsStr(Option("enforceParameterCount"), "atLeastOne"))
  => /\ (NParams = 0 /\ ~ImmediatelyInvoked) =>
          Descriptors =
            << [node |-> node, messageId |-> "paramCountAtLeastOne"] >>
     /\ NParams >= 1 => Positions(Descriptors, ParamCountKeys) = {}

\* Scenario A: a function declaration without parameters.
C3_Witness ==
  /\ Visited("checkFunction")
  /\ ~Ignored
  /\ IsStr(Option("enforceParameterCount"), "atLeastOne")
  /\ node.type = "FunctionDeclaration"
  /\ NParams = 0
  /\ Len(Descriptors) = 1

\* C4. IIFE exemption: with enforceParameterCount a record that asks for a
\* count and has ignoreIIFE = true, a function without parameters that is
\* the callee of an immediately-invoked call gets no descriptor.
C4_IIFEExemption ==
  (/\ Visited("checkFunction")
   /\ RequiredCount \in {"atLeastOne", "exactlyOne"}
   /\ IgnoreIIFE
   /\ NParams = 0
   /\ ImmediatelyInvoked)
  => Descriptors = <<>>

\* Scenario B under the default options: the function is not ignored, and
\* only the exemption keeps it from being reported.
C4_Witness ==
  /\ Visited("checkFunction")
  /\ userOptions = << <<>> >>
  /\ ~Ignored
  /\ RequiredCount = "atLeastOne"
  /\ IgnoreIIFE
  /\ NParams = 0
  /\ ImmediatelyInvoked
  /\ Descriptors = <<>>

\* The callee Promise.reject: a member access of identifier reject on
\* identifier Promise.
IsPromiseReject(callee) ==
  /\ callee.type = "MemberExpression"
  /\ callee.object.type = "Identifier"
  /\ callee.object.name = "Promise"
  /\ callee.property.type = "Identifier"
  /\ callee.property.name = "reject"

\* C5. Reject-call detection: checkCallExpression returns exactly one
\* descriptor, generic on the call, when the callee is Promise.reject, and
\* none for every other call.
C5_RejectCall ==
  Visited("checkCallExpression")
  => Descriptors =
       IF IsPromiseReject(node.callee)
       THEN << [node |-> node, messageId |-> "generic"] >>
       ELSE <<>>

\* Scenario D: a call of Promise.reject is reported.
C5_Witness ==
  /\ Visited("checkCallExpression")
  /\ IsPromiseReject(node.callee)
  /\ Len(Descriptors) = 1

----------------------------------------------------------------------------
(* Properties of the activation *)

Configured == phase # "init"

Accepted == phase \in {"active", "visited"}

\* The raw options the user gave.
User == userOptions[1]

IsBoolean(v) == v.tag = "boolean"

IsCount(v) == v.tag = "string" /\ v.s \in {"atLeastOne", "exactlyOne"}

\* The options other than enforceParameterCount are ones the rule knows,
\* each of its type.
OtherOptionsWellFormed(u) ==
  /\ DOMAIN u \subseteq {"allowRestParameter", "allowArgumentsKeyword",
                         "enforceParameterCount", "ignorePattern"}
  /\ \A k \in DOMAIN u \cap {"allowRestParameter", "allowArgumentsKeyword"} :
       IsBoolean(u[k])
  /\ "ignorePattern" \in DOMAIN u =>
       \/ u.ignorePattern.tag = "string"
       \/ /\ u.ignorePattern.tag = "array"
          /\ \A i \in 1..Len(u.ignorePattern.items) :
               u.ignorePattern.items[i].tag = "string"

\* The four shapes as the claim words them: the record has both a count and
\* an ignoreIIFE, and nothing else.
FourShapes(v) ==
  \/ IsFalse(v)
  \/ IsCount(v)
  \/ /\ v.tag = "object"
     /\ DOMAIN v.props = {"count", "ignoreIIFE"}
     /\ IsCount(v.props.count)
     /\ IsBoolean(v.props.ignoreIIFE)

\* The four shapes with count and ignoreIIFE each optional in the record.
FourShapesOptionalFields(v) ==
  \/ IsFalse(v)
  \/ IsCount(v)
  \/ /\ v.tag = "object"
     /\ DOMAIN v.props \subseteq {"count", "ignoreIIFE"}
     /\ "count" \in DOMAIN v.props => IsCount(v.props.count)
     /\ "ignoreIIFE" \in DOMAIN v.props => IsBoolean(v.props.ignoreIIFE)

\* C6 as stated. Option union discrimination: the schema accepts a
\* configuration exactly when its keys are known and well typed and its
\* enforceParameterCount, if given, is "atLeastOne", "exactlyOne", false or
\* a record {count, ignoreIIFE}; every other shape is a configuration error;
\* an accepted value satisfies exactly one oneOf alternative.
C6_UnionAsStated ==
  Configured =>
    /\ Accepted <=>
         /\ OtherOptionsWellFormed(User)
         /\ "enforceParameterCount" \in DOMAIN User =>
              FourShapes(User.enforceParameterCount)
    /\ (Accepted /\ "enforceParameterCount" \in DOMAIN User) =>
         Cardinality(MatchingAlternatives(User.enforceParameterCount)) = 1

\* C6 amended. As C6, with the record alternative being a record whose keys
\* are among count and ignoreIIFE, each optional: count one of "atLeastOne",
\* "exactlyOne" when present, ignoreIIFE a boolean when present.
C6_UnionOptionalFields ==
  Configured =>
    /\ Accepted <=>
         /\ OtherOptionsWellFormed(User)
         /\ "enforceParameterCount" \in DOMAIN User =>
              FourShapesOptionalFields(User.enforceParameterCount)
    /\ (Accepted /\ "enforceParameterCount" \in DOMAIN User) =>
         Cardinality(MatchingAlternatives(User.enforceParameterCount)) = 1

\* A record with a count and no ignoreIIFE is accepted.
C6_Witness ==
  /\ phase = "active"
  /\ "enforceParameterCount" \in DOMAIN User
  /\ User.enforceParameterCount = JObj([count |-> JStr("exactlyOne")])

\* The defaults as the claim lists them.
ClaimedDefaults ==
  [allowRestParameter |-> JBool(FALSE),
   allowArgumentsKeyword |-> JBool(FALSE),
   enforceParameterCount |->
     JObj([count |-> JStr("atLeastOne"), ignoreIIFE |-> JBool(TRUE)])]

----------------------------------------------------------------------------
(* Properties of the composition *)

C9_Arguments ==
  Visited("checkIdentifier") =>
    Descriptors =
      IF /\ ~Ignored
         /\ Option("allowArgumentsKeyword") = JBool(FALSE)
         /\ node.name = "arguments"
         /\ node.parent # "Property.key"
         /\ node.parent # "MemberExpression.property"
      THEN << [node |-> node, messageId |-> "arguments"] >>
      ELSE <<>>

\* `arguments` is reported with the other two options away from their
\* defaults.
C9_Witness ==
  /\ Visited("checkIdentifier")
  /\ Option("allowRestParameter") = JBool(TRUE)
  /\ IsFalse(Option("enforceParameterCount"))
  /\ node.parent = "MemberExpression.object"
  /\ Descriptors = << [node |-> node, messageId |-> "arguments"] >>

\* The parameter-count descriptors of the result.
ParamCountDescriptors ==
  SelectSeq(Descriptors, LAMBDA d : d.messageId \in ParamCountKeys)

\* C10. Scope of the IIFE exemption: a function that is not ignored is
\* exempted only when enforceParameterCount is a record with ignoreIIFE =
\* true, the function has no parameter and it is immediately invoked. So
\* (a) under "atLeastOne" / "exactlyOne" a parameterless IIFE is reported,
\* (b) under {count: "exactlyOne", ignoreIIFE: true} an IIFE with two or
\* more parameters gets one paramCountExactlyOne, and (c) under false no
\* function gets a parameter-count descriptor.
C10_ExemptionScope ==
  (Visited("checkFunction") /\ ~Ignored) =>
    LET e == Option("enforceParameterCount")
        exempt == IgnoreIIFE /\ NParams = 0 /\ ImmediatelyInvoked
        at == << [node |-> node, messageId |-> "paramCountAtLeastOne"] >>
        ex == << [node |-> node, messageId |-> "paramCountExactlyOne"] >>
    IN /\ ParamCountDescriptors =
            IF exempt \/ ~ParamCountViolated THEN <<>>
            ELSE IF RequiredCount = "atLeastOne" THEN at ELSE ex
       /\ (ImmediatelyInvoked /\ NParams = 0 /\ IsStr(e, "atLeastOne")) =>
            ParamCountDescriptors = at
       /\ (ImmediatelyInvoked /\ NParams = 0 /\ IsStr(e, "exactlyOne")) =>
            ParamCountDescriptors = ex
       /\ (ImmediatelyInvoked /\ NParams >= 2 /\ IgnoreIIFE
             /\ RequiredCount = "exactlyOne") =>
            ParamCountDescriptors = ex
       /\ IsFalse(e) => ParamCountDescriptors = <<>>

\* An immediately-invoked function with two parameters under
\* {count: "exactlyOne", ignoreIIFE: true} is reported.
C10_Witness ==
  /\ Visited("checkFunction")
  /\ ~Ignored
  /\ ImmediatelyInvoked
  /\ NParams >= 2
  /\ IgnoreIIFE
  /\ RequiredCount = "exactlyOne"
  /\ Len(ParamCountDescriptors) = 1

====
